---- MODULE Spec2Model ----
(***************************************************************************)
(* StoneKV (stone/stone.go): an append-only record log on disk plus an     *)
(* in-memory index from keys to the offset of the value-length field of    *)
(* the key's latest Set record.  The model works at byte level: files are  *)
(* sequences of bytes, the Store keeps a file handle with a cursor, and    *)
(* records are encoded and decoded as the code does it.                    *)
(***************************************************************************)
EXTENDS Integers, Sequences, FiniteSets, TLC

\* ------------------------------------------------------------------ bounds
\* The log never grows beyond MaxLog bytes (Set and Delete are not called
\* when the record would not fit).
MaxLog == 25
\* A copy or a write into the backup or the temp file that fails has
\* written between 0 and MaxPartial bytes.
MaxPartial == 1
\* With several goroutines calling the Store the log never grows beyond
\* MaxConcLog bytes.
MaxConcLog == 14

\* Keys and values the callers use: byte sequences, with an embedded zero
\* byte, the empty key and the empty value.
Keys == {<<>>, <<0, 2>>}
Vals == {<<>>, <<7>>, <<0, 9>>}

\* ------------------------------------------------------------ file system
origPath == "db"

\* A backup written over the log itself.
backupPathIsOrig == origPath

backupPath == "db.backup"

\* A temp file that is the log itself: a rewrite in place.
tempPathIsOrig == origPath

tempPath == "db.tmp"

\* A path a caller of Backup chooses that is none of the above.
backupTarget == "bk"

Paths == {origPath, backupPath, tempPath, backupTarget}

\* A path that names no file, and a file with the bytes data.
NoFile == [exists |-> FALSE, data |-> <<>>]
File(data) == [exists |-> TRUE, data |-> data]

\* ---------------------------------------------------------- byte encoding
\* binary.LittleEndian.PutUint32
PutUint32(n) ==
    << n % 256, (n \div 256) % 256, (n \div 65536) % 256, (n \div 16777216) % 256 >>

\* binary.LittleEndian.Uint32, on a 4-byte sequence
Uint32(b) == b[1] + 256 * b[2] + 65536 * b[3] + 16777216 * b[4]

\* [0][keyLen][key][valLen][value]
SetRecord(key, value) ==
    <<0>> \o PutUint32(Len(key)) \o key \o PutUint32(Len(value)) \o value

\* [1][keyLen][key]
DeleteRecord(key) == <<1>> \o PutUint32(Len(key)) \o key

Min(a, b) == IF a < b THEN a ELSE b
Max(a, b) == IF a > b THEN a ELSE b

Zeros(n) == [i \in 1..n |-> 0]

\* --------------------------------------------------------- reads of a file
\* binary.Read of n bytes (io.ReadFull) at cursor pos of a file holding data:
\* io.EOF when no byte is left, io.ErrUnexpectedEOF when fewer than n are.
\* The cursor moves past whatever was read.
BinaryRead(data, pos, n) ==
    LET avail == Max(0, Len(data) - pos) IN
    IF avail >= n
      THEN [err |-> "none", buf |-> SubSeq(data, pos + 1, pos + n), pos |-> pos + n]
      ELSE [err |-> IF avail = 0 THEN "EOF" ELSE "unexpected EOF",
            buf |-> <<>>, pos |-> pos + avail]

\* A read that reports io.EOF at the end of the file even for an empty buffer.
FileReadEofOnEmpty(data, pos, n) ==
    LET avail == Max(0, Len(data) - pos)
        m     == Min(n, avail) IN
    IF avail = 0 THEN [err |-> "EOF", buf |-> Zeros(n), pos |-> pos]
    ELSE [err |-> "none",
          buf |-> SubSeq(data, pos + 1, pos + m) \o Zeros(n - m),
          pos |-> pos + m]

\* os.File.Read into a buffer of n bytes (one read call): nothing to do and
\* no error for an empty buffer, io.EOF when no byte is left, otherwise the
\* bytes that are there, without error even when they are fewer than n; the
\* rest of the buffer keeps its zero bytes.
FileRead(data, pos, n) ==
    LET avail == Max(0, Len(data) - pos)
        m     == Min(n, avail) IN
    IF n = 0 THEN [err |-> "none", buf |-> <<>>, pos |-> pos]
    ELSE IF avail = 0 THEN [err |-> "EOF", buf |-> Zeros(n), pos |-> pos]
    ELSE [err |-> "none",
          buf |-> SubSeq(data, pos + 1, pos + m) \o Zeros(n - m),
          pos |-> pos + m]

\* ------------------------------------------------------------------ index
EmptyIndex == << >>

\* An insert that keeps the entry a key has already.
IndexPutKeepsOld(idx, key, off) == idx @@ (key :> off)

\* s.index[key] = off
IndexPut(idx, key, off) == (key :> off) @@ idx

\* A delete that leaves the index as it is.
IndexDeleteNothing(idx, key) == idx

\* delete(s.index, key)
IndexDelete(idx, key) == [k \in (DOMAIN idx) \ {key} |-> idx[k]]

\* ------------------------------------------------------------- buildIndex
\* The replay loop of buildIndex from cursor pos with the index idx so far.
\* The result carries the error (or "none"), the index as the loop left it,
\* the final cursor and, in detail, the numbers the error message is
\* formatted with.
\* A Set record indexed as if its key were empty.
ReplaySetKeyLenIgnored(idx, key, startOffset, keyLen) ==
    IndexPut(idx, key, startOffset + 1 + 4)

\* A Set record that starts at startOffset: the index maps the key to the
\* offset of the value-length field.
ReplaySet(idx, key, startOffset, keyLen) ==
    IndexPut(idx, key, startOffset + 1 + 4 + keyLen)

\* A replay that skips Delete records.
ReplayDeleteSkipped(idx, key) == idx

\* A Delete record: the key leaves the index, if it is there.
ReplayDelete(idx, key) == IndexDelete(idx, key)

RECURSIVE ReplayFrom(_, _, _)
ReplayFrom(data, pos, idx) ==
    LET t == BinaryRead(data, pos, 1) IN
    IF t.err = "EOF" THEN [err |-> "none", index |-> idx, pos |-> t.pos, detail |-> <<>>]
    ELSE
    LET kl == BinaryRead(data, t.pos, 4) IN
    IF kl.err # "none" THEN [err |-> kl.err, index |-> idx, pos |-> kl.pos, detail |-> <<>>]
    ELSE
    LET keyLen == Uint32(kl.buf)
        kb     == FileRead(data, kl.pos, keyLen) IN
    IF kb.err # "none" THEN [err |-> kb.err, index |-> idx, pos |-> kb.pos, detail |-> <<>>]
    ELSE
    IF t.buf[1] = 0 THEN
        LET idx1 == ReplaySet(idx, kb.buf, pos, keyLen)
            vl   == BinaryRead(data, kb.pos, 4) IN
        IF vl.err # "none" THEN [err |-> vl.err, index |-> idx1, pos |-> vl.pos, detail |-> <<>>]
        ELSE ReplayFrom(data, vl.pos + Uint32(vl.buf), idx1)
    ELSE IF t.buf[1] = 1 THEN
        ReplayFrom(data, kb.pos, ReplayDelete(idx, kb.buf))
    ELSE [err |-> "invalid record type", index |-> idx, pos |-> kb.pos,
          detail |-> << t.buf[1] >>]

\* buildIndex: seek to the start, then replay into the index the Store has.
buildIndex(data, idx) == ReplayFrom(data, 0, idx)

\* ---------------------------------------------------- length-prefixed read
\* Seek to offset, read the 4-byte value length, read that many bytes: the
\* body of Get, repeated in Polish and in backupTo.
ReadValueAt(data, offset) ==
    LET vl == BinaryRead(data, offset, 4) IN
    IF vl.err # "none"
      THEN [err |-> "failed to read value length", val |-> <<>>, pos |-> vl.pos]
      ELSE LET v == FileRead(data, vl.pos, Uint32(vl.buf)) IN
           IF v.err # "none"
             THEN [err |-> "failed to read value", val |-> <<>>, pos |-> v.pos]
             ELSE [err |-> "none", val |-> v.buf, pos |-> v.pos]

\* ------------------------------------------------------------------ state
VARIABLES
    fs,        \* the file system: path -> file
    file,      \* s.file, the handle of the log: "open", "closed" or "nil"
    pos,       \* the cursor of s.file
    index,     \* s.index: key -> offset of the value-length field
    pc,        \* where the running Polish call stands; "idle" between calls
    todo,      \* keys the range loop of Polish has still to visit
    tempFile,  \* the tempFile handle of the running Polish: "none", "open"
    pre,       \* the log and the index as they were when the last Polish,
               \* Close, Delete, Backup or failed Set began
    last,      \* the call that returned last, with what it returned
    ref,       \* key -> value of the latest successful Set with no later Delete
    hist,      \* "dirty" once a call has returned an error after it changed
               \* the log, or has cut the log short, "clean" until then
    mu,        \* s.mu: the goroutine that holds the write lock, and those
               \* that hold the read lock
    procs      \* goroutine -> the call it is in and where it stands in it

vars == << fs, file, pos, index, pc, todo, tempFile, pre, last, ref, hist, mu, procs >>

\* A snapshot holds the log, the index and the handle as a call found them,
\* for Backup the path the call was given, for Set and Delete whether the
\* call found the cursor short of the end of the log, and for Polish whether
\* the call before it was a Polish that succeeded.
NoSnapshot ==
    [valid |-> FALSE, log |-> <<>>, index |-> EmptyIndex, file |-> "nil", path |-> "",
     mid |-> FALSE, again |-> FALSE]
Snapshot ==
    [valid |-> TRUE, log |-> fs[origPath].data, index |-> index, file |-> file,
     path |-> "", mid |-> FALSE, again |-> FALSE]

\* The cursor of the handle stands short of the end of the log.
CursorMid == pos < Len(fs[origPath].data)

Returned(op, key, val, err) == [op |-> op, key |-> key, val |-> val, err |-> err]

\* The log file as the open handle sees it.
Log == fs[origPath].data

\* The goroutines that call the Store.
Goroutines == {"g1", "g2"}

\* A goroutine that is in no call.
NoAnswer == [err |-> "none", val |-> <<>>, pad |-> 0]
Idle ==
    [pc |-> "idle", op |-> "none", key |-> <<>>, val |-> <<>>, off |-> 0, len |-> 0,
     res |-> NoAnswer, want |-> NoAnswer, todo |-> {}, out |-> <<>>]

\* A step of a Store that one goroutine uses on its own: the lock is free
\* whenever a call begins and plays no part.
Sequential == UNCHANGED << mu, procs >>

\* NewStore on a path that holds no file: an empty log and an empty index.
Init ==
    /\ fs = [p \in Paths |-> IF p = origPath THEN File(<<>>) ELSE NoFile]
    /\ file = "open"
    /\ pos = 0
    /\ index = EmptyIndex
    /\ pc = "idle"
    /\ todo = {}
    /\ tempFile = "none"
    /\ pre = NoSnapshot
    /\ last = Returned("NewStore", <<>>, <<>>, "none")
    /\ ref = EmptyIndex
    /\ hist = "clean"
    /\ mu = [writer |-> "none", readers |-> {}]
    /\ procs = [g \in Goroutines |-> Idle]

\* -------------------------------------------------------------------- Set
\* An offset that points at the start of the record.
SetValLenOffsetAtRecord(size, record, key) == size - Len(record)

\* The offset Set stores: the file size after the write, less the record,
\* plus the kind byte, the key length field and the key.
SetValLenOffset(size, record, key) == (size - Len(record)) + 1 + 4 + Len(key)

\* A Set that writes its record twice.
SetOkWritesTwice(key, value) ==
    LET record == SetRecord(key, value)
        data   == Log \o record \o record IN
    /\ pc = "idle" /\ file = "open"
    /\ Len(data) <= MaxLog
    /\ fs' = [fs EXCEPT ![origPath] = File(data)]
    /\ pos' = Len(data)
    /\ index' = IndexPut(index, key, SetValLenOffset(Len(data), record, key))
    /\ ref' = (key :> value) @@ ref
    /\ pre' = NoSnapshot
    /\ last' = Returned("Set", key, value, "none")
    /\ UNCHANGED << file, pc, todo, tempFile, hist >>

\* A Set on a handle that is not in append mode: the record goes where the
\* cursor stands, over the bytes that are there.
SetOkAtCursor(key, value) ==
    LET record == SetRecord(key, value)
        data   == SubSeq(Log, 1, pos) \o record
                      \o SubSeq(Log, pos + Len(record) + 1, Len(Log)) IN
    /\ pc = "idle" /\ file = "open"
    /\ Len(data) <= MaxLog
    /\ fs' = [fs EXCEPT ![origPath] = File(data)]
    /\ pos' = pos + Len(record)
    /\ index' = IndexPut(index, key, SetValLenOffset(Len(data), record, key))
    /\ ref' = (key :> value) @@ ref
    /\ pre' = [NoSnapshot EXCEPT !.mid = CursorMid]
    /\ last' = Returned("Set", key, value, "none")
    /\ UNCHANGED << file, pc, todo, tempFile, hist >>

\* Set whose write and stat succeed.  The handle is in append mode, so the
\* record goes to the end of the file whatever the cursor was.
SetOk(key, value) ==
    LET record == SetRecord(key, value)
        data   == Log \o record IN
    /\ pc = "idle" /\ file = "open"
    /\ Len(data) <= MaxLog
    /\ fs' = [fs EXCEPT ![origPath] = File(data)]
    /\ pos' = Len(data)
    /\ index' = IndexPut(index, key, SetValLenOffset(Len(data), record, key))
    /\ ref' = (key :> value) @@ ref
    /\ pre' = [NoSnapshot EXCEPT !.mid = CursorMid]
    /\ last' = Returned("Set", key, value, "none")
    /\ UNCHANGED << file, pc, todo, tempFile, hist >>

\* Set whose write fails: the index is not touched.  The write is taken to
\* fail as a whole; bytes a failed write may leave at the end of the log
\* are not modelled.
SetWriteFails(key, value) ==
    /\ pc = "idle" /\ file = "open"
    /\ Len(Log) + Len(SetRecord(key, value)) <= MaxLog
    /\ pre' = Snapshot
    /\ last' = Returned("Set", <<>>, <<>>, "failed to write record")
    /\ UNCHANGED << fs, file, pos, index, pc, todo, tempFile, ref, hist >>

\* Set whose write succeeds and whose stat fails: the record is in the log
\* and the index is not updated.
SetStatFails(key, value) ==
    LET data == Log \o SetRecord(key, value) IN
    /\ pc = "idle" /\ file = "open"
    /\ Len(data) <= MaxLog
    /\ fs' = [fs EXCEPT ![origPath] = File(data)]
    /\ pos' = Len(data)
    /\ pre' = NoSnapshot
    /\ last' = Returned("Set", <<>>, <<>>, "failed to get file stat")
    /\ hist' = "dirty"
    /\ UNCHANGED << file, index, pc, todo, tempFile, ref >>

\* Set on a handle that is closed (or nil): the write fails at once.
SetClosed(key, value) ==
    /\ pc = "idle" /\ file # "open"
    /\ pre' = Snapshot
    /\ last' = Returned("Set", <<>>, <<>>, "failed to write record")
    /\ UNCHANGED << fs, file, pos, index, pc, todo, tempFile, ref, hist >>

Set(key, value) ==
    \/ SetOk(key, value)
    \/ SetWriteFails(key, value)
    \/ SetStatFails(key, value)
    \/ SetClosed(key, value)

\* -------------------------------------------------------------------- Get
\* What Get(key) returns, and where it leaves the cursor, on a Store with
\* the handle state f, the file bytes data, the cursor p and the index idx.
GetIn(f, data, p, idx, key) ==
    IF key \notin DOMAIN idx
      THEN [err |-> "key not found", val |-> <<>>, pos |-> p]
    ELSE IF f # "open"
      THEN [err |-> "failed to seek", val |-> <<>>, pos |-> p]
    ELSE ReadValueAt(data, idx[key])

GetResult(key) == GetIn(file, Log, pos, index, key)

Get(key) ==
    LET r == GetResult(key) IN
    /\ pc = "idle"
    /\ pos' = r.pos
    /\ pre' = NoSnapshot
    /\ last' = Returned("Get", key, r.val, r.err)
    /\ UNCHANGED << fs, file, index, pc, todo, tempFile, ref, hist >>

\* ----------------------------------------------------------------- Delete
\* A Delete that writes a tombstone only for a key the index holds.
DeleteOkSkipsAbsent(key) ==
    LET data == IF key \in DOMAIN index THEN Log \o DeleteRecord(key) ELSE Log IN
    /\ pc = "idle" /\ file = "open"
    /\ Len(Log \o DeleteRecord(key)) <= MaxLog
    /\ fs' = [fs EXCEPT ![origPath] = File(data)]
    /\ pos' = Len(data)
    /\ index' = IndexDelete(index, key)
    /\ ref' = [k \in (DOMAIN ref) \ {key} |-> ref[k]]
    /\ pre' = Snapshot
    /\ last' = Returned("Delete", key, <<>>, "none")
    /\ UNCHANGED << file, pc, todo, tempFile, hist >>

\* Delete whose write succeeds: a tombstone is appended whether or not the
\* key is in the index.
DeleteOk(key) ==
    LET data == Log \o DeleteRecord(key) IN
    /\ pc = "idle" /\ file = "open"
    /\ Len(data) <= MaxLog
    /\ fs' = [fs EXCEPT ![origPath] = File(data)]
    /\ pos' = Len(data)
    /\ index' = IndexDelete(index, key)
    /\ ref' = [k \in (DOMAIN ref) \ {key} |-> ref[k]]
    /\ pre' = [Snapshot EXCEPT !.mid = CursorMid]
    /\ last' = Returned("Delete", key, <<>>, "none")
    /\ UNCHANGED << file, pc, todo, tempFile, hist >>

\* A Delete that takes the key out of the index before a write that fails.
DeleteWriteFailsDropsKey(key) ==
    /\ pc = "idle" /\ file = "open"
    /\ Len(Log) + Len(DeleteRecord(key)) <= MaxLog
    /\ index' = IndexDelete(index, key)
    /\ pre' = Snapshot
    /\ last' = Returned("Delete", <<>>, <<>>, "failed to write delete record")
    /\ UNCHANGED << fs, file, pos, pc, todo, tempFile, ref, hist >>

\* Delete whose write fails: the index is not touched.
DeleteWriteFails(key) ==
    /\ pc = "idle" /\ file = "open"
    /\ Len(Log) + Len(DeleteRecord(key)) <= MaxLog
    /\ pre' = Snapshot
    /\ last' = Returned("Delete", <<>>, <<>>, "failed to write delete record")
    /\ UNCHANGED << fs, file, pos, index, pc, todo, tempFile, ref, hist >>

DeleteClosed(key) ==
    /\ pc = "idle" /\ file # "open"
    /\ pre' = Snapshot
    /\ last' = Returned("Delete", <<>>, <<>>, "failed to write delete record")
    /\ UNCHANGED << fs, file, pos, index, pc, todo, tempFile, ref, hist >>

Delete(key) ==
    \/ DeleteOk(key)
    \/ DeleteWriteFails(key)
    \/ DeleteClosed(key)

\* ----------------------------------------------------------------- Polish
\* An open without O_TRUNC: a file that exists keeps its bytes.
CreateKeeps(f, path) ==
    IF f[path].exists THEN f ELSE [f EXCEPT ![path] = File(<<>>)]

\* os.OpenFile(path, O_RDWR|O_CREATE|O_TRUNC): an empty file at path.
CreateTrunc(f, path) == [f EXCEPT ![path] = File(<<>>)]

\* A backup that creates the file and copies nothing.
FullBackupCreatesOnly(f, src, dst) == [f EXCEPT ![dst] = File(<<>>)]

\* backupTo(dst, false): open the file at src, create or truncate dst, copy.
\* When dst names the source itself, the source is empty by the time it is
\* copied.
FullBackup(f, src, dst) ==
    [f EXCEPT ![dst] = File(CreateTrunc(f, dst)[src].data)]

\* Polish returns err: the deferred tempFile.Close and Unlock run.
PolishReturns(err) ==
    /\ pc' = "idle"
    /\ todo' = {}
    /\ tempFile' = "none"
    /\ last' = Returned("Polish", <<>>, <<>>, err)

\* Lock, and origPath := s.file.Name().  Name() on a nil handle panics.
PolishBegin ==
    /\ pc = "idle" /\ file # "nil"
    /\ pc' = "backup"
    /\ pre' = [Snapshot EXCEPT !.again = (last.op = "Polish" /\ last.err = "none")]
    /\ UNCHANGED << fs, file, pos, index, todo, tempFile, last, ref, hist >>

\* Step 1: backupTo(origPath + ".backup", false) opens the log by its path,
\* creates or truncates the backup and copies the bytes.
PolishBackup ==
    /\ pc = "backup"
    /\ fs' = FullBackup(fs, origPath, backupPath)
    /\ pc' = "mktemp"
    /\ UNCHANGED << file, pos, index, todo, tempFile, pre, last, ref, hist >>

\* Step 1 fails: the source cannot be opened or the backup cannot be created
\* (nothing is written), or the copy stops after n bytes.
PolishBackupFails ==
    /\ pc = "backup"
    /\ \/ UNCHANGED fs
       \/ \E n \in 0..Min(MaxPartial, Len(Log)) :
            fs' = [fs EXCEPT ![backupPath] =
                     File(SubSeq(FullBackup(fs, origPath, backupPath)[backupPath].data, 1, n))]
    /\ PolishReturns("failed to create backup before polish")
    /\ UNCHANGED << file, pos, index, pre, ref, hist >>

\* Step 2: create or truncate origPath + ".tmp".
PolishCreateTemp ==
    /\ pc = "mktemp"
    /\ fs' = CreateTrunc(fs, tempPath)
    /\ tempFile' = "open"
    /\ todo' = DOMAIN index
    /\ pc' = "copy"
    /\ UNCHANGED << file, pos, index, pre, last, ref, hist >>

PolishCreateTempFails ==
    /\ pc = "mktemp"
    /\ PolishReturns("failed to create temp file")
    /\ UNCHANGED << fs, file, pos, index, pre, ref, hist >>

\* A record with the value length set and the value bytes never copied in.
PolishedRecordNoValue(key, value) == SetRecord(key, Zeros(Len(value)))

\* A Polish that adds a zero byte to every value it copies.
PolishedRecordPadded(key, value) == SetRecord(key, value \o << 0 >>)

\* The record Polish writes for key from the value it read.
PolishedRecord(key, value) == SetRecord(key, value)

\* Step 3, one turn of the range loop, for any key not visited yet: read
\* the value through the index and append a Set record to the temp file.
PolishCopy(key) ==
    LET r == ReadValueAt(Log, index[key]) IN
    /\ pc = "copy" /\ key \in todo
    /\ file = "open" /\ r.err = "none"
    /\ fs' = [fs EXCEPT ![tempPath] = File(@.data \o PolishedRecord(key, r.val))]
    /\ pos' = r.pos
    /\ todo' = todo \ {key}
    /\ UNCHANGED << file, index, pc, tempFile, pre, last, ref, hist >>

\* Step 3 fails on the seek (closed handle) or on a read of the value.
PolishCopyReadFails(key) ==
    LET r == ReadValueAt(Log, index[key]) IN
    /\ pc = "copy" /\ key \in todo
    /\ \/ /\ file # "open"
          /\ PolishReturns("failed to seek to value offset")
          /\ UNCHANGED pos
       \/ /\ file = "open" /\ r.err # "none"
          /\ PolishReturns(r.err)
          /\ pos' = r.pos
    /\ UNCHANGED << fs, file, index, pre, ref, hist >>

\* Step 3 fails on the write to the temp file, n bytes of the record written.
PolishCopyWriteFails(key, n) ==
    LET r == ReadValueAt(Log, index[key]) IN
    /\ pc = "copy" /\ key \in todo
    /\ file = "open" /\ r.err = "none"
    /\ fs' = [fs EXCEPT ![tempPath] =
                File(@.data \o SubSeq(PolishedRecord(key, r.val), 1, n))]
    /\ pos' = r.pos
    /\ PolishReturns("failed to write polished record")
    /\ UNCHANGED << file, index, pre, ref, hist >>

\* Step 4, first half: s.file.Close() once the loop is over.
PolishCloseOrig ==
    /\ pc = "copy" /\ todo = {}
    /\ file = "open"
    /\ file' = "closed"
    /\ pc' = "rename"
    /\ UNCHANGED << fs, pos, index, todo, tempFile, pre, last, ref, hist >>

\* s.file.Close() fails: on a handle that was closed already, or by an
\* error of the close itself, which leaves the handle closed all the same.
PolishCloseOrigFails ==
    /\ pc = "copy" /\ todo = {}
    /\ file' = "closed"
    /\ PolishReturns("failed to close original file")
    /\ UNCHANGED << fs, pos, index, pre, ref, hist >>

\* A rename of the backup, not of the temp file, over the log.
RenamedFromBackup(f) == [f EXCEPT ![origPath] = f[backupPath], ![backupPath] = NoFile]

\* What os.Rename(tempPath, origPath) makes of the file system.
Renamed(f) == [f EXCEPT ![origPath] = f[tempPath], ![tempPath] = NoFile]

\* Step 4, second half: the temp file, still open, replaces the log.
PolishRename ==
    /\ pc = "rename"
    /\ fs' = Renamed(fs)
    /\ pc' = "reopen"
    /\ UNCHANGED << file, pos, index, todo, tempFile, pre, last, ref, hist >>

PolishRenameFails ==
    /\ pc = "rename"
    /\ PolishReturns("failed to replace original file")
    /\ UNCHANGED << fs, file, pos, index, pre, ref, hist >>

\* Step 5, first half: s.file, err = os.OpenFile(origPath, O_RDWR|O_APPEND).
PolishReopen ==
    /\ pc = "reopen"
    /\ file' = "open"
    /\ pos' = 0
    /\ pc' = "reindex"
    /\ UNCHANGED << fs, index, todo, tempFile, pre, last, ref, hist >>

\* The open fails, and the assignment has made s.file nil.
PolishReopenFails ==
    /\ pc = "reopen"
    /\ file' = "nil"
    /\ PolishReturns("failed to reopen polished file")
    /\ UNCHANGED << fs, pos, index, pre, ref, hist >>

\* Step 5, second half: buildIndex replays the new log into s.index (which
\* still holds the old entries) and Polish returns.
PolishReindex ==
    LET r == buildIndex(Log, index) IN
    /\ pc = "reindex"
    /\ index' = r.index
    /\ pos' = r.pos
    /\ PolishReturns(IF r.err = "none" THEN "none"
                     ELSE "failed to rebuild index after polish")
    /\ UNCHANGED << fs, file, pre, ref, hist >>

\* Polish on a Store whose handle is nil.
PolishPanics ==
    /\ pc = "idle" /\ file = "nil"
    /\ pre' = NoSnapshot
    /\ last' = Returned("Polish", <<>>, <<>>, "panic")
    /\ UNCHANGED << fs, file, pos, index, pc, todo, tempFile, ref, hist >>

\* ------------------------------------------------------- Close, NewStore
Close ==
    /\ pc = "idle"
    /\ file' = IF file = "nil" THEN "nil" ELSE "closed"
    /\ pre' = Snapshot
    /\ last' = Returned("Close", <<>>, <<>>,
                        IF file = "open" THEN "none" ELSE "failed to close file")
    /\ UNCHANGED << fs, pos, index, pc, todo, tempFile, ref, hist >>

\* NewStore(origPath) once the Store that held the path is closed: open in
\* append mode and build the index of a fresh Store.  On an error the file
\* is closed again and no Store is returned; the error wraps that of
\* buildIndex, with the numbers its message carries.
NewStore ==
    LET r == buildIndex(Log, EmptyIndex) IN
    /\ pc = "idle" /\ file # "open"
    /\ IF r.err = "none"
         THEN /\ file' = "open"
              /\ index' = r.index
              /\ pos' = r.pos
              /\ last' = Returned("NewStore", <<>>, <<>>, "none")
         ELSE /\ last' = Returned("NewStore", <<>>, r.detail, "failed to build index")
              /\ UNCHANGED << file, index, pos >>
    /\ UNCHANGED << fs, pc, todo, tempFile, pre, ref, hist >>

\* ----------------------------------------------------------------- Backup
\* The paths Backup is called with: a path of its own, and the path of the
\* log of the Store itself.
Targets == {backupTarget, origPath}

\* Backup returns err: the snapshot keeps what the call found and its path.
BackupReturns(path, polished, err) ==
    /\ pre' = [Snapshot EXCEPT !.path = path]
    /\ last' = Returned(IF polished THEN "BackupPolished" ELSE "BackupFull",
                        <<>>, <<>>, err)
    /\ hist' = IF fs'[origPath] = fs[origPath] THEN hist ELSE "dirty"

\* Backup(path, false) that succeeds: the log is opened by its name, so the
\* handle of the Store and its cursor play no part.
BackupFullOk(path) ==
    /\ pc = "idle" /\ file # "nil"
    /\ fs' = FullBackup(fs, origPath, path)
    /\ BackupReturns(path, FALSE, "none")
    /\ UNCHANGED << file, pos, index, pc, todo, tempFile, ref >>

\* Backup(path, false) whose io.Copy stops with an error after n bytes.
BackupFullCopyFails(path, n) ==
    LET copied == FullBackup(fs, origPath, path) IN
    /\ pc = "idle" /\ file # "nil"
    /\ n <= Len(copied[path].data)
    /\ fs' = [copied EXCEPT ![path] = File(SubSeq(copied[path].data, 1, n))]
    /\ BackupReturns(path, FALSE, "failed to copy file")
    /\ UNCHANGED << file, pos, index, pc, todo, tempFile, ref >>

\* Backup whose target cannot be created (or, for a full backup, whose
\* source cannot be opened): nothing is written.
BackupCreateFails(path, polished) ==
    /\ pc = "idle" /\ (polished \/ file # "nil")
    /\ UNCHANGED fs
    /\ BackupReturns(path, polished, "failed to create backup file")
    /\ UNCHANGED << file, pos, index, pc, todo, tempFile, ref >>

\* A record with the value length set and the value bytes left zero.
BackupRecordNoValue(key, value) == SetRecord(key, Zeros(Len(value)))

\* The record backupTo(path, true) writes for key from the value it read.
BackupRecord(key, value) == SetRecord(key, value)

\* The range loop of backupTo(path, true) over the keys in order, on a file
\* holding data: each value is read through the handle of the Store and a
\* Set record is added to out.  The loop stops at the first failed read.
RECURSIVE PolishedCopy(_, _, _, _, _)
PolishedCopy(data, idx, order, out, p) ==
    IF order = <<>> THEN [err |-> "none", out |-> out, pos |-> p]
    ELSE LET key == Head(order)
             r   == ReadValueAt(data, idx[key]) IN
         IF r.err # "none" THEN [err |-> r.err, out |-> out, pos |-> r.pos]
         ELSE PolishedCopy(data, idx, Tail(order),
                           out \o BackupRecord(key, r.val), r.pos)

\* The loop on a Store with the handle state f: a seek on a handle that is
\* not open fails at the first key.
PolishedBackupRun(f, data, idx, order, p) ==
    IF f = "open" THEN PolishedCopy(data, idx, order, <<>>, p)
    ELSE [err |-> IF order = <<>> THEN "none" ELSE "failed to seek to value offset",
          out |-> <<>>, pos |-> p]

\* All orders the range over a map with the keys S can take.
Orders(S) == {o \in [1..Cardinality(S) -> S] : \A k \in S : \E i \in DOMAIN o : o[i] = k}

\* Backup(path, true) whose writes succeed: the target is created or
\* truncated, then the loop runs.  It returns the error of the loop, if any.
\* When path names the log itself the reads see the truncated log, and the
\* first of them fails before anything is written.
BackupPolished(path, order) ==
    LET created == CreateTrunc(fs, path)
        r       == PolishedBackupRun(file, created[origPath].data, index, order, pos) IN
    /\ pc = "idle"
    /\ order \in Orders(DOMAIN index)
    /\ fs' = [created EXCEPT ![path] = File(r.out)]
    /\ pos' = r.pos
    /\ BackupReturns(path, TRUE, r.err)
    /\ UNCHANGED << file, index, pc, todo, tempFile, ref >>

\* Backup(path, true) whose write of the record of the key at place j of the
\* order fails after n bytes.
BackupPolishedWriteFails(path, order, j, n) ==
    LET created == CreateTrunc(fs, path)
        done    == PolishedBackupRun(file, created[origPath].data, index,
                                     SubSeq(order, 1, j - 1), pos)
        r       == PolishedBackupRun(file, created[origPath].data, index,
                                     SubSeq(order, 1, j), pos) IN
    /\ pc = "idle"
    /\ order \in Orders(DOMAIN index)
    /\ j \in DOMAIN order
    /\ r.err = "none"
    /\ fs' = [created EXCEPT ![path] =
                File(done.out \o SubSeq(BackupRecord(order[j], ReadValueAt(Log, index[order[j]]).val), 1, n))]
    /\ pos' = r.pos
    /\ BackupReturns(path, TRUE, "failed to write backup record")
    /\ UNCHANGED << file, index, pc, todo, tempFile, ref >>

\* ------------------------------------------------------------- truncation
\* The offsets at which the records of a well-formed log end, from p on.
RECURSIVE RecordEnds(_, _)
RecordEnds(data, p) ==
    IF p >= Len(data) THEN {}
    ELSE LET keyLen   == Uint32(SubSeq(data, p + 2, p + 5))
             afterKey == p + 1 + 4 + keyLen
             end      == IF data[p + 1] = 0
                           THEN afterKey + 4 + Uint32(SubSeq(data, afterKey + 1, afterKey + 4))
                           ELSE afterKey IN
         {end} \cup RecordEnds(data, end)

\* The log file is cut to n bytes, strictly inside one of its records, while
\* no Store holds it: the file NewStore is then given.
Truncate(n) ==
    /\ pc = "idle" /\ file = "closed" /\ hist = "clean"
    /\ n \in 1..(Len(Log) - 1)
    /\ n \notin RecordEnds(Log, 0)
    /\ fs' = [fs EXCEPT ![origPath] = File(SubSeq(Log, 1, n))]
    /\ hist' = "truncated"
    /\ pre' = Snapshot
    /\ last' = Returned("Truncate", <<>>, <<>>, "none")
    /\ UNCHANGED << file, pos, index, pc, todo, tempFile, ref >>

\* ------------------------------------------------------------ goroutines
\* s.mu.RLock() returns once no goroutine holds the write lock.
CanRLock(m) == m.writer = "none"

\* A write lock that only waits for other writers.
CanLockAmongReaders(m) == m.writer = "none"

\* s.mu.Lock() returns once no goroutine holds the lock in either mode.
CanLock(m) == m.writer = "none" /\ m.readers = {}

RLock(g) == mu' = [mu EXCEPT !.readers = @ \cup {g}]
RUnlock(g) == mu' = [mu EXCEPT !.readers = @ \ {g}]
Lock(g) == mu' = [mu EXCEPT !.writer = g]
Unlock(g) == mu' = [mu EXCEPT !.writer = "none"]

\* The goroutine is in no call and free to begin one.
Free(g) == procs[g].pc \in {"idle", "returned"}

\* What a call of Get hands back: the error, the bytes read into the value
\* buffer and the number of bytes of the buffer no read has filled.
Handed(err, val, pad) == [err |-> err, val |-> val, pad |-> pad]

\* What Get(key) returns on the Store as it is when no other call runs.
GetAlone(key) ==
    LET r == GetResult(key) IN Handed(r.err, r.val, 0)

\* Get returns res: the deferred RUnlock runs.
GetReturns(g, res) ==
    /\ procs' = [procs EXCEPT ![g] =
          [Idle EXCEPT !.pc = "returned", !.op = "Get", !.res = res,
                       !.want = procs[g].want]]
    /\ RUnlock(g)

\* Get, lines 126-132: RLock, then the lookup in the index.
GetBegin(g, key) ==
    /\ Free(g) /\ CanRLock(mu)
    /\ RLock(g)
    /\ procs' = [procs EXCEPT ![g] =
          [Idle EXCEPT !.pc = IF key \in DOMAIN index THEN "seek" ELSE "miss",
                       !.op = "Get", !.key = key,
                       !.off = IF key \in DOMAIN index THEN index[key] ELSE 0,
                       !.want = GetAlone(key)]]
    /\ UNCHANGED << fs, file, pos, index, pc, todo, tempFile, pre, last, ref, hist >>

\* The key is not in the index: key not found.
GetMiss(g) ==
    /\ procs[g].pc = "miss"
    /\ GetReturns(g, Handed("key not found", <<>>, 0))
    /\ UNCHANGED << fs, file, pos, index, pc, todo, tempFile, pre, last, ref, hist >>

\* s.file.Seek(offset, io.SeekStart): the cursor of the one handle all
\* goroutines share moves to the offset of this goroutine's key.
GetSeek(g) ==
    /\ procs[g].pc = "seek"
    /\ IF file = "open"
         THEN /\ pos' = procs[g].off
              /\ procs' = [procs EXCEPT ![g].pc = "readlen"]
              /\ UNCHANGED mu
         ELSE /\ GetReturns(g, Handed("failed to seek", <<>>, 0))
              /\ UNCHANGED pos
    /\ UNCHANGED << fs, file, index, pc, todo, tempFile, pre, last, ref, hist >>

\* binary.Read(s.file, ..., &valLen): four bytes from wherever the shared
\* cursor stands now.
GetReadLen(g) ==
    LET vl == BinaryRead(Log, pos, 4) IN
    /\ procs[g].pc = "readlen"
    /\ pos' = vl.pos
    /\ IF vl.err = "none"
         THEN /\ procs' = [procs EXCEPT ![g] =
                              [@ EXCEPT !.pc = "readval", !.len = Uint32(vl.buf)]]
              /\ UNCHANGED mu
         ELSE GetReturns(g, Handed("failed to read value length", <<>>, 0))
    /\ UNCHANGED << fs, file, index, pc, todo, tempFile, pre, last, ref, hist >>

\* value := make([]byte, valLen); s.file.Read(value): one read from the
\* shared cursor, then Get returns the buffer.
GetReadValue(g) ==
    LET n     == procs[g].len
        avail == Max(0, Len(Log) - pos)
        m     == Min(n, avail) IN
    /\ procs[g].pc = "readval"
    /\ pos' = pos + m
    /\ GetReturns(g, IF n > 0 /\ avail = 0
                       THEN Handed("failed to read value", <<>>, 0)
                       ELSE Handed("none", SubSeq(Log, pos + 1, pos + m), n - m))
    /\ UNCHANGED << fs, file, index, pc, todo, tempFile, pre, last, ref, hist >>

\* Set, lines 98-99: Lock.
SetLock(g, key, value) ==
    /\ Free(g) /\ CanLock(mu)
    /\ Len(Log) + Len(SetRecord(key, value)) <= MaxConcLog
    /\ Lock(g)
    /\ procs' = [procs EXCEPT ![g] =
          [Idle EXCEPT !.pc = "locked", !.op = "Set", !.key = key, !.val = value]]
    /\ UNCHANGED << fs, file, pos, index, pc, todo, tempFile, pre, last, ref, hist >>

\* Set, lines 101-121, and the deferred Unlock.
SetUnlock(g) ==
    /\ procs[g].pc = "locked" /\ procs[g].op = "Set"
    /\ SetOk(procs[g].key, procs[g].val)
    /\ Unlock(g)
    /\ procs' = [procs EXCEPT ![g] = Idle]

\* Delete, lines 156-157: Lock.
DeleteLock(g, key) ==
    /\ Free(g) /\ CanLock(mu)
    /\ Len(Log) + Len(DeleteRecord(key)) <= MaxConcLog
    /\ Lock(g)
    /\ procs' = [procs EXCEPT ![g] =
          [Idle EXCEPT !.pc = "locked", !.op = "Delete", !.key = key]]
    /\ UNCHANGED << fs, file, pos, index, pc, todo, tempFile, pre, last, ref, hist >>

\* Delete, lines 159-170, and the deferred Unlock.
DeleteUnlock(g) ==
    /\ procs[g].pc = "locked" /\ procs[g].op = "Delete"
    /\ DeleteOk(procs[g].key)
    /\ Unlock(g)
    /\ procs' = [procs EXCEPT ![g] = Idle]

\* Backup, lines 260-261: RLock.
BackupRLock(g) ==
    /\ Free(g) /\ CanRLock(mu)
    /\ RLock(g)
    /\ procs' = [procs EXCEPT ![g] = [Idle EXCEPT !.pc = "rlocked", !.op = "Backup"]]
    /\ UNCHANGED << fs, file, pos, index, pc, todo, tempFile, pre, last, ref, hist >>

\* Backup(backupTarget, false), line 263, and the deferred RUnlock.
BackupRUnlock(g) ==
    /\ procs[g].pc = "rlocked" /\ procs[g].op = "Backup"
    /\ BackupFullOk(backupTarget)
    /\ RUnlock(g)
    /\ procs' = [procs EXCEPT ![g] = Idle]

\* Polish, lines 176-180: Lock.
PolishLock(g) ==
    /\ Free(g) /\ CanLock(mu)
    /\ PolishBegin
    /\ Lock(g)
    /\ procs' = [procs EXCEPT ![g] = [Idle EXCEPT !.pc = "locked", !.op = "Polish"]]

\* Polish, lines 183-246: one of its steps, under the lock.
PolishStep(g) ==
    /\ procs[g].pc = "locked" /\ procs[g].op = "Polish"
    /\ \/ PolishBackup
       \/ PolishCreateTemp
       \/ \E k \in todo : PolishCopy(k)
       \/ PolishCloseOrig
       \/ PolishRename
       \/ PolishReopen
    /\ UNCHANGED << mu, procs >>

\* Polish, lines 249-254: buildIndex, the return and the deferred Unlock.
PolishUnlock(g) ==
    /\ procs[g].pc = "locked" /\ procs[g].op = "Polish"
    /\ PolishReindex
    /\ Unlock(g)
    /\ procs' = [procs EXCEPT ![g] = Idle]

\* Backup(path, true) by a goroutine, one step of backupTo at a time.  Each
\* call is given a path of its own; todo holds the keys the range loop has
\* not visited and out the records the call has written to its backup file,
\* each as its key, the bytes read into the value buffer and the number of
\* bytes of the buffer the read has left zero.

\* Backup returns err: the backup file is closed and the deferred RUnlock
\* runs.
BackupPolishedReturns(g, err) ==
    /\ procs' = [procs EXCEPT ![g] =
          [@ EXCEPT !.pc = "returned", !.res = Handed(err, <<>>, 0)]]
    /\ RUnlock(g)

\* Lines 260-261 and 270-274: RLock, the backup file is created empty, and
\* the range over the index begins.
BackupPolishedBegin(g) ==
    /\ Free(g) /\ CanRLock(mu)
    /\ RLock(g)
    /\ procs' = [procs EXCEPT ![g] =
          [Idle EXCEPT !.pc = "range", !.op = "Backup", !.todo = DOMAIN index]]
    /\ UNCHANGED << fs, file, pos, index, pc, todo, tempFile, pre, last, ref, hist >>

\* Lines 276-280: the next key of the range, and s.file.Seek to its offset
\* on the handle all goroutines share.
BackupPolishedSeek(g, key) ==
    /\ procs[g].pc = "range" /\ procs[g].op = "Backup"
    /\ key \in procs[g].todo
    /\ IF file = "open"
         THEN /\ pos' = index[key]
              /\ procs' = [procs EXCEPT ![g] =
                    [@ EXCEPT !.pc = "backuplen", !.key = key, !.todo = @ \ {key}]]
              /\ UNCHANGED mu
         ELSE /\ BackupPolishedReturns(g, "failed to seek to value offset")
              /\ UNCHANGED pos
    /\ UNCHANGED << fs, file, index, pc, todo, tempFile, pre, last, ref, hist >>

\* Lines 282-286: binary.Read of the value length from wherever the shared
\* cursor stands now.
BackupPolishedReadLen(g) ==
    LET vl == BinaryRead(Log, pos, 4) IN
    /\ procs[g].pc = "backuplen"
    /\ pos' = vl.pos
    /\ IF vl.err = "none"
         THEN /\ procs' = [procs EXCEPT ![g] =
                    [@ EXCEPT !.pc = "backupval", !.len = Uint32(vl.buf)]]
              /\ UNCHANGED mu
         ELSE BackupPolishedReturns(g, "failed to read value length")
    /\ UNCHANGED << fs, file, index, pc, todo, tempFile, pre, last, ref, hist >>

\* Lines 287-304: one s.file.Read into a buffer of valLen bytes, and the
\* record of the key with that buffer is written to the backup file.
BackupPolishedReadValue(g) ==
    LET n     == procs[g].len
        avail == Max(0, Len(Log) - pos)
        m     == Min(n, avail)
        rec   == [key |-> procs[g].key, read |-> SubSeq(Log, pos + 1, pos + m),
                  pad |-> n - m] IN
    /\ procs[g].pc = "backupval"
    /\ pos' = pos + m
    /\ IF n > 0 /\ avail = 0
         THEN BackupPolishedReturns(g, "failed to read value")
         ELSE /\ procs' = [procs EXCEPT ![g] =
                    [@ EXCEPT !.pc = "range", !.out = Append(@, rec)]]
              /\ UNCHANGED mu
    /\ UNCHANGED << fs, file, index, pc, todo, tempFile, pre, last, ref, hist >>

\* The range is over: return nil, line 326.
BackupPolishedEnd(g) ==
    /\ procs[g].pc = "range" /\ procs[g].op = "Backup"
    /\ procs[g].todo = {}
    /\ BackupPolishedReturns(g, "none")
    /\ UNCHANGED << fs, file, pos, index, pc, todo, tempFile, pre, last, ref, hist >>

\* The kind bytes a damaged record is given.
BadKinds == {2, 9}

\* The offsets at which the records of a well-formed log start.
RecordStarts(data) == IF data = <<>> THEN {} ELSE ({0} \cup RecordEnds(data, 0)) \ {Len(data)}

\* The kind byte of the record that starts at offset i is overwritten with b
\* while no Store holds the log: the file NewStore is then given.
Corrupt(i, b) ==
    /\ pc = "idle" /\ file = "closed" /\ hist = "clean"
    /\ i \in RecordStarts(Log)
    /\ fs' = [fs EXCEPT ![origPath] = File([Log EXCEPT ![i + 1] = b])]
    /\ hist' = "corrupt"
    /\ pre' = Snapshot
    /\ last' = Returned("Corrupt", <<>>, <<>>, "none")
    /\ UNCHANGED << file, pos, index, pc, todo, tempFile, ref >>

\* ------------------------------------------------------------------- Next
Next ==
    \/ \E k \in Keys, v \in Vals : SetOk(k, v) /\ Sequential
    \/ \E k \in Keys, v \in Vals : SetWriteFails(k, v) /\ Sequential
    \/ \E k \in Keys, v \in Vals : SetClosed(k, v) /\ Sequential
    \/ \E k \in Keys : Get(k) /\ Sequential
    \/ \E k \in Keys : DeleteOk(k) /\ Sequential
    \/ \E k \in Keys : DeleteWriteFails(k) /\ Sequential
    \/ \E k \in Keys : DeleteClosed(k) /\ Sequential
    \/ PolishBegin /\ Sequential
    \/ PolishBackup /\ Sequential
    \/ PolishBackupFails /\ Sequential
    \/ PolishCreateTemp /\ Sequential
    \/ PolishCreateTempFails /\ Sequential
    \/ \E k \in todo : PolishCopy(k) /\ Sequential
    \/ \E k \in todo : PolishCopyReadFails(k) /\ Sequential
    \/ \E k \in todo, n \in 0..MaxPartial : PolishCopyWriteFails(k, n) /\ Sequential
    \/ PolishCloseOrig /\ Sequential
    \/ PolishCloseOrigFails /\ Sequential
    \/ PolishRename /\ Sequential
    \/ PolishRenameFails /\ Sequential
    \/ PolishReopen /\ Sequential
    \/ PolishReopenFails /\ Sequential
    \/ PolishReindex /\ Sequential
    \/ PolishPanics /\ Sequential
    \/ Close /\ Sequential
    \/ NewStore /\ Sequential

Spec == Init /\ [][Next]_vars

\* Set, Get, Delete, Close and NewStore, with a Set whose stat fails after
\* its write.
NextStat ==
    \/ \E k \in Keys, v \in Vals : SetOk(k, v) /\ Sequential
    \/ \E k \in Keys, v \in Vals : SetStatFails(k, v) /\ Sequential
    \/ \E k \in Keys : Get(k) /\ Sequential
    \/ \E k \in Keys : DeleteOk(k) /\ Sequential
    \/ Close /\ Sequential
    \/ NewStore /\ Sequential

SpecStat == Init /\ [][NextStat]_vars

\* The calls of a Store whose callers take backups: Set, Delete, Get, Close,
\* NewStore and Backup.  Once a call has cut the log short under the index
\* no more records are appended.
NextBackup ==
    \/ \E k \in Keys, v \in Vals : hist = "clean" /\ SetOk(k, v) /\ Sequential
    \/ \E k \in Keys, v \in Vals : SetClosed(k, v) /\ Sequential
    \/ \E k \in Keys : Get(k) /\ Sequential
    \/ \E k \in Keys : hist = "clean" /\ DeleteOk(k) /\ Sequential
    \/ \E k \in Keys : DeleteClosed(k) /\ Sequential
    \/ Close /\ Sequential
    \/ NewStore /\ Sequential
    \/ \E path \in Targets : BackupFullOk(path) /\ Sequential
    \/ \E path \in Targets, n \in 0..MaxPartial : BackupFullCopyFails(path, n) /\ Sequential
    \/ \E path \in Targets, polished \in BOOLEAN : BackupCreateFails(path, polished) /\ Sequential
    \/ \E path \in Targets, order \in Orders(DOMAIN index) : BackupPolished(path, order) /\ Sequential
    \/ \E path \in Targets, order \in Orders(DOMAIN index), j \in 1..Cardinality(Keys),
          n \in 0..MaxPartial : BackupPolishedWriteFails(path, order, j, n) /\ Sequential

SpecBackup == Init /\ [][NextBackup]_vars

\* A Store that is written, closed and opened again, with a log that may be
\* cut short in between.  No record is appended to a log that was cut.
NextTrunc ==
    \/ \E k \in Keys, v \in Vals : hist = "clean" /\ SetOk(k, v) /\ Sequential
    \/ \E k \in Keys : hist = "clean" /\ DeleteOk(k) /\ Sequential
    \/ \E k \in Keys : Get(k) /\ Sequential
    \/ Close /\ Sequential
    \/ \E n \in 1..MaxLog : Truncate(n) /\ Sequential
    \/ NewStore /\ Sequential

SpecTrunc == Init /\ [][NextTrunc]_vars

\* A Store that is written, closed and opened again, with a log in which
\* the kind byte of a record may be damaged in between.
NextCorrupt ==
    \/ \E k \in Keys, v \in Vals : hist = "clean" /\ SetOk(k, v) /\ Sequential
    \/ \E k \in Keys : hist = "clean" /\ DeleteOk(k) /\ Sequential
    \/ \E k \in Keys : Get(k) /\ Sequential
    \/ Close /\ Sequential
    \/ \E i \in 0..MaxLog, b \in BadKinds : Corrupt(i, b) /\ Sequential
    \/ NewStore /\ Sequential

SpecCorrupt == Init /\ [][NextCorrupt]_vars

\* The goroutines call Get, Set, Delete, Backup and Polish on one Store, each
\* call taking the steps of its code one at a time.
NextConc ==
    \/ \E g \in Goroutines, k \in Keys : GetBegin(g, k)
    \/ \E g \in Goroutines : GetMiss(g)
    \/ \E g \in Goroutines : GetSeek(g)
    \/ \E g \in Goroutines : GetReadLen(g)
    \/ \E g \in Goroutines : GetReadValue(g)
    \/ \E g \in Goroutines, k \in Keys, v \in Vals : SetLock(g, k, v)
    \/ \E g \in Goroutines : SetUnlock(g)
    \/ \E g \in Goroutines, k \in Keys : DeleteLock(g, k)
    \/ \E g \in Goroutines : DeleteUnlock(g)
    \/ \E g \in Goroutines : BackupRLock(g)
    \/ \E g \in Goroutines : BackupRUnlock(g)
    \/ \E g \in Goroutines : PolishLock(g)
    \/ \E g \in Goroutines : PolishStep(g)
    \/ \E g \in Goroutines : PolishUnlock(g)

SpecConc == Init /\ [][NextConc]_vars

\* No other goroutine is inside a call of Get.
NoOtherGet(g) ==
    \A h \in Goroutines \ {g} : procs[h].op = "Get" => procs[h].pc = "returned"

\* The goroutines call Get, Set, Delete and Backup(path, true) on one Store,
\* each call taking the steps of its code one at a time.  A Get overlaps
\* with a Backup only, never with another Get.
NextConcBackup ==
    \/ \E g \in Goroutines, k \in Keys : NoOtherGet(g) /\ GetBegin(g, k)
    \/ \E g \in Goroutines : GetMiss(g)
    \/ \E g \in Goroutines : GetSeek(g)
    \/ \E g \in Goroutines : GetReadLen(g)
    \/ \E g \in Goroutines : GetReadValue(g)
    \/ \E g \in Goroutines, k \in Keys, v \in Vals : SetLock(g, k, v)
    \/ \E g \in Goroutines : SetUnlock(g)
    \/ \E g \in Goroutines, k \in Keys : DeleteLock(g, k)
    \/ \E g \in Goroutines : DeleteUnlock(g)
    \/ \E g \in Goroutines : BackupPolishedBegin(g)
    \/ \E g \in Goroutines, k \in Keys : BackupPolishedSeek(g, k)
    \/ \E g \in Goroutines : BackupPolishedReadLen(g)
    \/ \E g \in Goroutines : BackupPolishedReadValue(g)
    \/ \E g \in Goroutines : BackupPolishedEnd(g)

SpecConcBackup == Init /\ [][NextConcBackup]_vars

\* ================================================================= claims
\* What a call of Get returned: the error and the value, without the cursor.
Answer(r) == [err |-> r.err, val |-> r.val]

\* What the history of successful Set and Delete calls says Get(key) returns.
Expected(key) ==
    IF key \in DOMAIN ref
      THEN [err |-> "none", val |-> ref[key]]
      ELSE [err |-> "key not found", val |-> <<>>]

\* What Get(key) returned on the Store the snapshot pre was taken of.
GetBefore(key) == Answer(GetIn(pre.file, pre.log, 0, pre.index, key))

IsPrefix(a, b) == Len(a) <= Len(b) /\ SubSeq(b, 1, Len(a)) = a

\* The Store is open, between calls, and no call has failed half-way.
OpenAndClean == pc = "idle" /\ file = "open" /\ hist = "clean"

\* C1: last writer wins.  On an open store, after any sequence of successful
\* Set, Delete and Polish calls, Get(k) returns without error the value of
\* the latest Set(k, v) that no Delete(k) followed, for every key.
C1_LastWriterWins ==
    OpenAndClean =>
        \A k \in Keys :
            k \in DOMAIN ref =>
                /\ GetResult(k).err = "none"
                /\ GetResult(k).val = ref[k]

\* A Get has returned the second value of a key whose first Set record, with
\* another value, is still at the head of the log.
C1_Witness ==
    /\ last.op = "Get" /\ last.err = "none"
    /\ \E v \in Vals : v # last.val /\ IsPrefix(SetRecord(last.key, v), Log)
    /\ last.val = ref[last.key]

\* C2: round trip.  Right after a successful Set(k, v), Get(k) returns
\* exactly v and no error, for every key and value, the empty value
\* included, the record just written being the last one of the log.
C2_RoundTrip ==
    (pc = "idle" /\ last.op = "Set" /\ last.err = "none") =>
        Answer(GetResult(last.key)) = [err |-> "none", val |-> last.val]

\* A Set of the empty value has just appended to a log that is not empty.
C2_Witness ==
    /\ last.op = "Set" /\ last.err = "none" /\ last.val = <<>>
    /\ Len(Log) > Len(SetRecord(last.key, last.val))
    /\ index[last.key] + 4 = Len(Log)

\* C3: Get(k) fails with key-not-found exactly when k was never set or the
\* latest successful call on k is Delete(k).
C3_NotFoundIffDeleted ==
    OpenAndClean =>
        \A k \in Keys :
            (GetResult(k).err = "key not found") <=> (k \notin DOMAIN ref)

\* A Get has failed with key-not-found for a key the log holds a Set record
\* of: the key was set and then deleted.
C3_Witness ==
    /\ last.op = "Get" /\ last.err = "key not found"
    /\ file = "open"
    /\ \E v \in Vals : IsPrefix(SetRecord(last.key, v), Log)

\* C4: persistence.  After a Close and a NewStore at the same path, NewStore
\* has succeeded and every Get returns what it returned before the Close:
\* the same value or the same key-not-found.
C4_Persistence ==
    (pc = "idle" /\ last.op = "NewStore" /\ pre.valid /\ pre.file = "open"
        /\ hist = "clean") =>
        /\ last.err = "none"
        /\ file = "open"
        /\ \A k \in Keys : Answer(GetResult(k)) = GetBefore(k)

\* A store was closed and opened again on a log that holds a live key and
\* at least one more record.
C4_Witness ==
    /\ last.op = "NewStore" /\ last.err = "none"
    /\ pre.valid /\ pre.file = "open"
    /\ \E k \in DOMAIN index :
          /\ GetResult(k).err = "none"
          /\ Len(Log) > Len(SetRecord(k, GetResult(k).val))

\* C5: a successful Polish leaves the live mapping unchanged.  For every
\* key, Get after Polish returns what Get returned right before Polish.
C5_PolishKeepsLive ==
    (pc = "idle" /\ last.op = "Polish" /\ last.err = "none") =>
        \A k \in Keys : Answer(GetResult(k)) = GetBefore(k)

\* A Polish has succeeded that made the log shorter and kept a live key
\* with a value that is not empty.
C5_Witness ==
    /\ pc = "idle" /\ last.op = "Polish" /\ last.err = "none"
    /\ Len(Log) < Len(pre.log)
    /\ \E k \in DOMAIN index : GetResult(k).val # <<>>

\* The sequences that list every element of the set S once.
Perms(S) ==
    { p \in [1..Cardinality(S) -> S] : \A i, j \in DOMAIN p : p[i] = p[j] => i = j }

\* The concatenation of a sequence of byte sequences.
RECURSIVE Concat(_)
Concat(ss) == IF ss = <<>> THEN <<>> ELSE Head(ss) \o Concat(Tail(ss))

\* The Set record of a key that was live when the snapshot pre was taken,
\* with the value Get returned for it then.
LiveRecord(key) == SetRecord(key, GetBefore(key).val)

\* The log is one Set record for each key of the snapshot's index, in some
\* order, and nothing else.
IsPolished(data) ==
    \E p \in Perms(DOMAIN pre.index) :
        data = Concat([i \in DOMAIN p |-> LiveRecord(p[i])])

\* The sum of the encoded sizes 1 + 4 + len(key) + 4 + len(value) of the
\* Set records of the keys in S, live when the snapshot was taken.
RECURSIVE LiveSize(_)
LiveSize(S) ==
    IF S = {} THEN 0
    ELSE LET k == CHOOSE x \in S : TRUE IN
         1 + 4 + Len(k) + 4 + Len(GetBefore(k).val) + LiveSize(S \ {k})

PolishSucceeded == pc = "idle" /\ last.op = "Polish" /\ last.err = "none"

\* C6: after a successful Polish the log is exactly one Set record for each
\* key that was live when Polish started, with the key's current value, in
\* whatever order the index was iterated: no tombstone, no superseded
\* record, and the empty log when no key was live.
C6_PolishedLogExact ==
    PolishSucceeded =>
        /\ \A k \in DOMAIN pre.index : GetBefore(k).err = "none"
        /\ IsPolished(Log)

\* A Polish has succeeded with two live keys and has written them in the
\* order opposite to the one their records had in the old log.
C6_Witness ==
    /\ PolishSucceeded
    /\ \E k1, k2 \in DOMAIN pre.index :
          /\ pre.index[k1] < pre.index[k2]
          /\ index[k2] < index[k1]

\* C7: after a successful Polish the file is no larger than before it, and
\* no larger than the sum of the encoded sizes of the live keys' Set records.
C7_PolishShrinks ==
    (PolishSucceeded /\ hist = "clean") =>
        /\ Len(Log) <= Len(pre.log)
        /\ Len(Log) <= LiveSize(DOMAIN pre.index)

\* A Polish has succeeded on a log that held a tombstone or a superseded
\* record next to a live key: the file has shrunk and is not empty.
C7_Witness ==
    /\ PolishSucceeded
    /\ 0 < Len(Log) /\ Len(Log) < Len(pre.log)

\* The errors of Polish at its steps 1 to 3: the backup copy, the creation
\* of the temp file, the copy of the live records.
PolishErrors123 ==
    { "failed to create backup before polish", "failed to create temp file",
      "failed to seek to value offset", "failed to read value length",
      "failed to read value", "failed to write polished record" }

\* The errors of Polish before the rename has happened.
PolishErrorsBeforeRename ==
    PolishErrors123 \cup
        { "failed to close original file", "failed to replace original file" }

\* C8: at every step of Polish, and when Polish returns an error at that
\* step, the file at the store's path exists and is whole: it is the log as
\* it was before Polish until the rename, and the polished log from then on.
C8_LiveFileWhole ==
    /\ pc \in {"backup", "mktemp", "copy", "rename"} =>
          fs[origPath] = File(pre.log)
    /\ pc \in {"reopen", "reindex"} =>
          fs[origPath].exists /\ IsPolished(Log)
    /\ (pc = "idle" /\ last.op = "Polish" /\ last.err \in PolishErrorsBeforeRename) =>
          fs[origPath] = File(pre.log)
    /\ (pc = "idle" /\ last.op = "Polish" /\ last.err \notin PolishErrorsBeforeRename
          /\ last.err # "panic") =>
          fs[origPath].exists /\ IsPolished(Log)

\* Polish stands right before the rename: the temp file is written, it
\* differs from the log, and the log is still what it was.
C8_Witness ==
    /\ pc = "rename"
    /\ fs[tempPath].exists /\ fs[tempPath].data # Log
    /\ Len(Log) > 0

\* C9: when Polish fails at its steps 1 to 3 it returns an error and leaves
\* the log's bytes, the index and the handle as they were, Get returns for
\* every key what it returned before, and the store keeps working: with a
\* temp file left behind by such a failure, Get still returns what the
\* successful Set and Delete calls, earlier and later, say.
C9_PolishFailureHarmless ==
    /\ (pc = "idle" /\ last.op = "Polish" /\ last.err \in PolishErrors123) =>
          /\ fs[origPath] = File(pre.log)
          /\ index = pre.index
          /\ file = pre.file
          /\ \A k \in Keys : Answer(GetResult(k)) = GetBefore(k)
    /\ (OpenAndClean /\ fs[tempPath].exists) =>
          \A k \in Keys : Answer(GetResult(k)) = Expected(k)

\* A Set has succeeded on a store which a failed Polish has left a temp
\* file of, with a record copied into it already.
C9_Witness ==
    /\ pc = "idle" /\ last.op = "Set" /\ last.err = "none"
    /\ fs[tempPath].exists /\ Len(fs[tempPath].data) > 1

\* C10: Polish writes <path>.backup as a copy of the log before anything
\* else: while the backup is not written there is no temp file handle and
\* the log and its handle are as they were, from then on the backup holds
\* the bytes the log had when Polish started, and it still does after a
\* successful Polish.
C10_BackupFirst ==
    /\ pc = "backup" =>
          /\ tempFile = "none"
          /\ file = pre.file
          /\ fs[origPath] = File(pre.log)
    /\ pc \in {"mktemp", "copy", "rename", "reopen", "reindex"} =>
          fs[backupPath] = File(pre.log)
    /\ PolishSucceeded => fs[backupPath] = File(pre.log)

\* A Polish has succeeded and the backup holds the old log, which the
\* polished log differs from.
C10_Witness ==
    /\ PolishSucceeded
    /\ fs[backupPath].data # Log
    /\ Len(fs[backupPath].data) > 0

\* ------------------------------------------------------------ Backup claims
\* A Backup call has returned.
BackupReturned == pc = "idle" /\ last.op \in {"BackupFull", "BackupPolished"}

\* What Get(key) returns on a Store opened on a file holding data.
GetOpened(data, key) ==
    Answer(GetIn("open", data, 0, buildIndex(data, EmptyIndex).index, key))

\* What Get(key) returned when the snapshot pre was taken, had the handle
\* been open.
LiveBefore(key) == Answer(GetIn("open", pre.log, 0, pre.index, key))

\* C11: a successful Backup(path, false) produces a file whose bytes equal
\* the live log file at the time of the backup, superseded Set records and
\* tombstones included, whatever the path.
C11_FullBackupEqualsLog ==
    (BackupReturned /\ last.op = "BackupFull" /\ last.err = "none") =>
        fs[pre.path] = File(pre.log)

\* C11, for the target paths that do not name the log of the Store itself:
\* the file produced equals the log as the call found it.
C11_OtherTargets ==
    (BackupReturned /\ last.op = "BackupFull" /\ last.err = "none"
        /\ pre.path # origPath) =>
        fs[pre.path] = File(pre.log)

\* C12: a successful Backup(path, true) produces a file that NewStore
\* replays without error and on which Get returns, for every key, what it
\* returned on the source when the backup started: the value of each live
\* key, and key-not-found for every other key.
C12_PolishedBackupLive ==
    (BackupReturned /\ last.op = "BackupPolished" /\ last.err = "none") =>
        /\ buildIndex(fs[pre.path].data, EmptyIndex).err = "none"
        /\ DOMAIN buildIndex(fs[pre.path].data, EmptyIndex).index = DOMAIN pre.index
        /\ \A k \in Keys :
              /\ GetOpened(fs[pre.path].data, k) = LiveBefore(k)
              /\ hist = "clean" => GetOpened(fs[pre.path].data, k) = Expected(k)

\* A polished backup of a Store with a live key with a value that is not
\* all zero bytes, a key that is not live, and a log longer than the backup.
C12_Witness ==
    /\ BackupReturned /\ last.op = "BackupPolished" /\ last.err = "none"
    /\ pre.path = backupTarget
    /\ \E k \in DOMAIN pre.index : LiveBefore(k).val \in {<<7>>, <<0, 9>>}
    /\ \E k \in Keys : k \notin DOMAIN pre.index
    /\ Len(fs[backupTarget].data) < Len(pre.log)

\* C13: Backup(path, polished) does not touch the source: for every target
\* path, and whether the call succeeds or fails, the bytes of the log and
\* the index are after the call what they were before it.
C13_BackupLeavesSource ==
    BackupReturned =>
        /\ fs[origPath] = File(pre.log)
        /\ index = pre.index

\* ------------------------------------------------- error handling claims
\* C17: Delete(k) of a key that is not in the index succeeds without error,
\* appends exactly one tombstone record for k to the log and leaves the
\* index as it was.
C17_DeleteAbsent ==
    (pc = "idle" /\ last.op = "Delete" /\ pre.valid /\ pre.file = "open") =>
        /\ last.err \in {"none", "failed to write delete record"}
        /\ (last.err = "none" /\ last.key \notin DOMAIN pre.index) =>
              /\ Log = pre.log \o DeleteRecord(last.key)
              /\ index = pre.index

\* Delete of a key that was never set, on a Store that holds another key.
C17_Witness ==
    /\ pc = "idle" /\ last.op = "Delete" /\ last.err = "none"
    /\ pre.valid /\ last.key \notin DOMAIN pre.index
    /\ last.key \notin DOMAIN ref
    /\ pre.index # EmptyIndex
    /\ Len(Log) = Len(pre.log) + Len(DeleteRecord(last.key))

\* A Set or a Delete has returned the error of its append.
AppendFailed ==
    /\ pc = "idle" /\ pre.valid
    /\ \/ last.op = "Set" /\ last.err = "failed to write record"
       \/ last.op = "Delete" /\ last.err = "failed to write delete record"

\* C18: when the append fails in Set or in Delete, the call returns an
\* error and the index is exactly what it was before the call.
C18_AppendFailureKeepsIndex ==
    (pc = "idle" /\ last.op \in {"Set", "Delete"} /\ last.err # "none"
        /\ last.err # "failed to get file stat") =>
        /\ AppendFailed
        /\ index = pre.index

\* A failed append on an open Store whose index holds a key.
C18_Witness ==
    /\ AppendFailed /\ file = "open"
    /\ index # EmptyIndex
    /\ last.op = "Delete"

\* C19: after Close has returned, every later Set, Delete, Get, Backup or
\* Polish call returns an error, and none of them changes the log file or
\* the index.
C19_ClosedStoreRejects ==
    (pc = "idle" /\ file = "closed"
        /\ last.op \in {"Set", "Delete", "Get", "BackupFull", "BackupPolished", "Polish"}) =>
        /\ last.err # "none"
        /\ pre.valid => (fs[origPath] = File(pre.log) /\ index = pre.index)

\* C16: corruption detection.  For every well-formed log and every
\* truncation point strictly inside a record, NewStore on the truncated
\* file returns an error and no Store.
C16_TruncationDetected ==
    (pc = "idle" /\ hist = "truncated" /\ last.op = "NewStore") =>
        /\ last.err # "none"
        /\ file # "open"

\* C20: between the calls of an open Store, after NewStore and after every
\* completed Set, Delete or Polish, successful or not, the index equals the
\* index a replay of the log from offset 0 builds: same keys, same offsets.
C20_IndexIsReplay ==
    (pc = "idle" /\ file = "open") =>
        /\ buildIndex(Log, EmptyIndex).err = "none"
        /\ buildIndex(Log, EmptyIndex).index = index

\* ------------------------------------------------------ concurrency claims
\* The goroutine is inside the critical section of Set, Delete or Polish.
InWrite(g) == procs[g].pc = "locked"

\* The goroutine is inside the critical section of Get or Backup.
InRead(g) ==
    procs[g].pc \in {"miss", "seek", "readlen", "readval", "rlocked",
                     "range", "backuplen", "backupval"}

\* C14: Get calls that run concurrently on one Store are safe.  Under every
\* interleaving of their steps each Get(k) of a live key returns exactly the
\* value of k, the result it returns when it runs alone.
C14_ConcurrentGets ==
    \A g \in Goroutines :
        (procs[g].pc = "returned" /\ procs[g].op = "Get" /\ procs[g].want.err = "none") =>
            procs[g].res = procs[g].want

\* C15: mutual exclusion.  At most one goroutine is inside the critical
\* section of Set, Delete or Polish, and while one is, no goroutine is
\* inside the critical section of Get or Backup.
C15_MutualExclusion ==
    \A g1, g2 \in Goroutines :
        (g1 # g2 /\ InWrite(g1)) => (~InWrite(g2) /\ ~InRead(g2))

\* A goroutine is in the copy loop of Polish, under the write lock, on a
\* Store another goroutine has read from.
C15_Witness ==
    \E g1, g2 \in Goroutines :
        /\ g1 # g2
        /\ InWrite(g1) /\ procs[g1].op = "Polish" /\ pc = "copy"
        /\ index # EmptyIndex
        /\ procs[g2].pc = "returned" /\ procs[g2].res.err = "none"

\* ------------------------------------------------------------ replay claims
\* The records of a well-formed log from offset p on, in order: where each
\* starts, its kind and its key.
RECURSIVE RecordsOf(_, _)
RecordsOf(data, p) ==
    IF p >= Len(data) THEN <<>>
    ELSE LET K   == Uint32(SubSeq(data, p + 2, p + 5))
             key == SubSeq(data, p + 6, p + 5 + K)
             end == IF data[p + 1] = 0
                      THEN p + 9 + K + Uint32(SubSeq(data, p + 6 + K, p + 9 + K))
                      ELSE p + 5 + K IN
         << [start |-> p, kind |-> data[p + 1], key |-> key] >> \o RecordsOf(data, end)

\* The place in rs of the last record of key, 0 when there is none.
LastOf(rs, key) ==
    LET S == {i \in DOMAIN rs : rs[i].key = key} IN
    IF S = {} THEN 0 ELSE CHOOSE i \in S : \A j \in S : j <= i

\* The index the log stands for: the keys whose last record is a Set record,
\* each mapped to S + 1 + 4 + K of that record.
IndexOf(data) ==
    LET rs   == RecordsOf(data, 0)
        live == {rs[i].key : i \in {j \in DOMAIN rs : rs[j].kind = 0 /\ LastOf(rs, rs[j].key) = j}} IN
    [k \in live |-> rs[LastOf(rs, k)].start + 1 + 4 + Len(k)]

\* C21: replay of a well-formed log ends without error at the end of the
\* log and yields the index in which a key is present exactly when its last
\* record is a Set record, mapped to S + 1 + 4 + K for the start offset S
\* and the key length K of that record.  An empty file gives an empty
\* index, and a tombstone for an absent key changes nothing.
C21_ReplayIndex ==
    hist = "clean" =>
        /\ buildIndex(Log, EmptyIndex).err = "none"
        /\ buildIndex(Log, EmptyIndex).pos = Len(Log)
        /\ buildIndex(Log, EmptyIndex).index = IndexOf(Log)

\* A Store opened on a log with a Set record that a later Set record of
\* the key supersedes and a tombstone of a key no record has set before it.
C21_Witness ==
    LET rs == RecordsOf(Log, 0) IN
    /\ pc = "idle" /\ last.op = "NewStore" /\ last.err = "none" /\ file = "open"
    /\ index = IndexOf(Log)
    /\ \E i, j \in DOMAIN rs : i < j /\ rs[i].key = rs[j].key /\ rs[i].kind = 0 /\ rs[j].kind = 0
    /\ \E i \in DOMAIN rs : rs[i].kind = 1 /\ \A j \in 1..(i - 1) : rs[j].key # rs[i].key
    /\ index # EmptyIndex

\* The offset at which a and b, of the same length, first differ.
FirstDiff(a, b) ==
    (CHOOSE i \in DOMAIN a : a[i] # b[i] /\ \A j \in 1..(i - 1) : a[j] = b[j]) - 1

\* NewStore has returned on a log one kind byte of which was overwritten
\* since the Store was closed.
DamagedReopen ==
    /\ pc = "idle" /\ hist = "corrupt" /\ last.op = "NewStore"
    /\ pre.valid /\ pre.log # Log

\* C22: replay of a log with a record whose kind byte is neither 0 nor 1
\* fails with a corrupt-record error that carries the offset of that
\* record, and NewStore then returns no Store.
C22_BadKindOffset ==
    DamagedReopen =>
        /\ last.err # "none"
        /\ file # "open"
        /\ last.val = << FirstDiff(pre.log, Log) >>

\* C22, without the offset: the replay fails with the invalid-record-type
\* error, which carries the kind byte it met, and NewStore returns no Store.
C22_BadKindRejected ==
    DamagedReopen =>
        /\ last.err = "failed to build index"
        /\ file # "open"
        /\ buildIndex(Log, EmptyIndex).err = "invalid record type"
        /\ last.val = << Log[FirstDiff(pre.log, Log) + 1] >>

\* ------------------------------------------------------------ Polish claims
\* C23: Polish attempts the rename of the temp file over the log only after
\* the temp file has been written and closed: whenever Polish stands before
\* the rename, and after it, the handle of the temp file is no longer open.
C23_TempClosedBeforeRename ==
    pc \in {"rename", "reopen", "reindex"} => tempFile # "open"

\* ------------------------------------------------------- append-only claims
\* A step is a whole call of Set, Get, Delete, Close or NewStore.
WholeCall == pc = "idle" /\ pc' = "idle"

\* C24: the log is append-only outside compaction.  Every successful Set or
\* Delete leaves the bytes already in the log as they are and adds exactly
\* one encoded record at the end, and Get never changes the bytes of the log.
C24_AppendOnly ==
    [][WholeCall =>
         /\ (last'.op = "Set" /\ last'.err = "none") =>
                Log' = Log \o SetRecord(last'.key, last'.val)
         /\ (last'.op = "Delete" /\ last'.err = "none") =>
                Log' = Log \o DeleteRecord(last'.key)
         /\ last'.op = "Get" => Log' = Log]_vars

\* A Set has added its record to a log that held records already, one of
\* them of another key that is still live.
C24_Witness ==
    /\ pc = "idle" /\ file = "open"
    /\ last.op = "Set" /\ last.err = "none"
    /\ Len(Log) > Len(SetRecord(last.key, last.val))
    /\ SubSeq(Log, Len(Log) - Len(SetRecord(last.key, last.val)) + 1, Len(Log))
          = SetRecord(last.key, last.val)
    /\ \E k \in DOMAIN index : k # last.key

\* C29: Set and Delete append at the end of the log whatever position the
\* cursor was left at, and the offset Set stores is the one of the record it
\* wrote: a successful Set or Delete keeps every byte of the old log, keeps
\* the entry and the value of every other key, and after a Set the entry of
\* the key is the old size + 1 + 4 + len(key) and Get returns the value set.
C29_AppendWhateverCursor ==
    [][(WholeCall /\ last'.op \in {"Set", "Delete"} /\ last'.err = "none") =>
         /\ IsPrefix(Log, Log')
         /\ Len(Log') > Len(Log)
         /\ \A k \in DOMAIN index' \ {last'.key} :
               /\ k \in DOMAIN index
               /\ index'[k] = index[k]
               /\ Answer(ReadValueAt(Log', index'[k])) = Answer(ReadValueAt(Log, index[k]))
         /\ last'.op = "Set" =>
               /\ index'[last'.key] = Len(Log) + 1 + 4 + Len(last'.key)
               /\ Answer(GetIn(file', Log', pos', index', last'.key))
                     = [err |-> "none", val |-> last'.val]]_vars

\* A Set has returned that found the cursor short of the end of the log,
\* where a Get had left it, with another key live whose record lies before
\* the record the Set wrote at the end.
C29_Witness ==
    /\ pc = "idle" /\ file = "open"
    /\ last.op = "Set" /\ last.err = "none" /\ pre.mid
    /\ \E k \in DOMAIN index \ {last.key} :
          /\ GetResult(k).err = "none"
          /\ index[k] < index[last.key]
    /\ index[last.key] + 4 + Len(last.val) = Len(Log)
    /\ GetResult(last.key).val = last.val

\* The records of a well-formed log, as a set of byte sequences.
RecordSet(data) ==
    LET ends == RecordEnds(data, 0) \cup {0} IN
    { SubSeq(data, a + 1, b) :
        << a, b >> \in { e \in ends \X ends :
                            /\ e[1] < e[2]
                            /\ \A m \in ends : ~(e[1] < m /\ m < e[2]) } }

\* C30: Polish is idempotent on the live data.  A Polish that succeeds
\* directly after a Polish that succeeded leaves the same set of records in
\* the log, the same file size and the same result of Get for every key.
C30_PolishIdempotent ==
    [][(/\ pc = "reindex" /\ pc' = "idle"
        /\ last.op = "Polish" /\ last.err = "none"
        /\ last'.op = "Polish" /\ last'.err = "none") =>
         /\ RecordSet(Log') = RecordSet(pre.log)
         /\ Len(Log') = Len(pre.log)
         /\ \A k \in Keys :
               Answer(GetIn(file', Log', pos', index', k)) = GetBefore(k)]_vars

\* A second Polish in a row has succeeded on a log of two live keys, one
\* with a value that is not empty, and has written their records in the
\* other order.
C30_Witness ==
    /\ PolishSucceeded /\ pre.again
    /\ Cardinality(DOMAIN index) = 2
    /\ \E k \in DOMAIN index : GetResult(k).val # <<>>
    /\ Log # pre.log

\* ------------------------------------------------- concurrent backup claims
\* The goroutine returns from a call of op on this step.
Returning(g, op) ==
    /\ procs[g].op = op /\ procs[g].pc # "returned"
    /\ procs'[g].op = op /\ procs'[g].pc = "returned"

\* The bytes out replay without error to an index under which every key
\* has the answer Get gives on the Store.
ReplaysToLive(out) ==
    LET r == buildIndex(out, EmptyIndex) IN
    /\ r.err = "none"
    /\ \A k \in Keys :
          Answer(GetIn("open", out, 0, r.index, k)) = Answer(GetResult(k))

\* The size of the backup file that holds the records out.
RECURSIVE BackupSize(_)
BackupSize(out) ==
    IF out = <<>> THEN 0
    ELSE 1 + 4 + Len(Head(out).key) + 4 + Len(Head(out).read) + Head(out).pad
           + BackupSize(Tail(out))

\* The bytes of the backup file that holds the records out.
BackupBytes(out) ==
    Concat([i \in DOMAIN out |->
               BackupRecord(out[i].key, out[i].read \o Zeros(out[i].pad))])

\* A polished Backup returns no error and a file that replays to the live
\* keys and values of the Store; such a file holds records of the log only
\* and is no longer than the log.
BackupReturnsLive(g) ==
    Returning(g, "Backup") =>
        /\ procs'[g].res.err = "none"
        /\ BackupSize(procs'[g].out) <= Len(Log)
        /\ ReplaysToLive(BackupBytes(procs'[g].out))

\* A Get returns what it returns when it runs alone.
GetReturnsOwn(g) ==
    Returning(g, "Get") => procs'[g].res = procs'[g].want

\* C25: a polished Backup that runs concurrently with Get calls or with
\* another Backup produces, under every interleaving, a file that replays to
\* exactly the live keys and values of the Store, and the concurrent Get
\* calls return the values of their own keys.
C25_ConcurrentBackup ==
    [][\A g \in Goroutines : BackupReturnsLive(g) /\ GetReturnsOwn(g)]_vars

\* ------------------------------------------------------ Polish and callers
\* The goroutine is inside Polish.
InPolish(g) == procs[g].op = "Polish" /\ procs[g].pc = "locked"

\* While the goroutine is inside Polish after this step, no other goroutine
\* is inside the critical section of any call.
PolishExcludes(g) ==
    InPolish(g)' => \A h \in Goroutines \ {g} : ~InRead(h)' /\ ~InWrite(h)'

\* A call of Get, Set or Delete that enters its critical section on this
\* step finds no Polish half-way: the handle open, no temp file open, and
\* the index the replay of the log.
EntersWholeStore(g) ==
    (/\ Free(g) /\ ~Free(g)'
     /\ procs'[g].op \in {"Get", "Set", "Delete"}) =>
        /\ pc = "idle" /\ file = "open" /\ tempFile # "open"
        /\ buildIndex(Log, EmptyIndex).err = "none"
        /\ buildIndex(Log, EmptyIndex).index = index

\* A Get that returns with a successful Polish as the last call that held
\* the write lock returns what Get returns alone on the polished Store.
GetAfterPolishSerial(g) ==
    (Returning(g, "Get") /\ last.op = "Polish" /\ last.err = "none") =>
        procs'[g].res = procs'[g].want

\* C26: Polish is atomic for concurrent callers.  No Get, Set or Delete is
\* inside its critical section while Polish is in progress, each enters on
\* a Store no Polish has left half-way (handle open, no temp file, index
\* rebuilt), and a Get that takes effect after Polish returns the result
\* of that serial order.
C26_PolishAtomic ==
    [][\A g \in Goroutines :
          /\ PolishExcludes(g)
          /\ EntersWholeStore(g)
          /\ GetAfterPolishSerial(g)]_vars

\* ------------------------------------------------------------- termination
\* C27: every call returns, with a result or an error, and has released
\* the lock when it returns, on the success path and on every error path.
\* Whenever no call is in progress, the call that ended last has ended with
\* a result or an error, never with a panic, and the lock is held in
\* neither mode.
C27_CallsReturn ==
    pc = "idle" =>
        /\ last.err # "panic"
        /\ mu = [writer |-> "none", readers |-> {}]

\* ------------------------------------------------------------ index claims
\* The value-length field at offset off of data and the value bytes it
\* announces lie inside data.
InsideLog(data, off) ==
    /\ 5 <= off /\ off + 4 <= Len(data)
    /\ off + 4 + Uint32(SubSeq(data, off + 1, off + 4)) <= Len(data)

\* C28: in every state reached by NewStore and successful Set, Delete and
\* Polish calls, each index entry points at a 4-byte value-length field
\* whose value bytes lie inside the log, so a Get of an indexed key fails
\* with no read error and returns the bytes of its record and no others.
C28_IndexInsideLog ==
    OpenAndClean =>
        \A k \in DOMAIN index :
            /\ InsideLog(Log, index[k])
            /\ GetResult(k).err = "none"
            /\ GetResult(k).val =
                  SubSeq(Log, index[k] + 5, index[k] + 4 + Uint32(SubSeq(Log, index[k] + 1, index[k] + 4)))
            /\ GetResult(k).pos <= Len(Log)
            /\ \E v \in Vals :
                  SubSeq(Log, index[k] - 4 - Len(k), index[k] + 4 + Len(v)) = SetRecord(k, v)

\* A Store after a Polish that replaced the log (the backup holds bytes the
\* log no longer begins with) and a later Set, with two keys in the index,
\* the entry of one of them ending at the end of the log.
C28_Witness ==
    /\ OpenAndClean
    /\ last.op = "Set" /\ last.err = "none"
    /\ fs[backupPath].exists /\ ~IsPrefix(fs[backupPath].data, Log)
    /\ Cardinality(DOMAIN index) = 2
    /\ \E k \in DOMAIN index : index[k] + 4 + Len(GetResult(k).val) = Len(Log)
    /\ \E k \in DOMAIN index : GetResult(k).val # <<>>
====
